---- MODULE Spec2Model ----
(***************************************************************************)
(* A model of react-native-hanzi-writer: the stroke matcher                *)
(* (src/src/hanzi-writer/index.ts) and the quiz, animator and character    *)
(* load state of useHanziWriter (src/src/HanziWriter.tsx).                  *)
(*                                                                         *)
(* Numbers.  Coordinates are integers.  A real number that the code        *)
(* compares against a threshold is kept as a fraction [n, d] (d > 0) and   *)
(* compared by cross multiplication, so leniency 1.2 is [n |-> 6, d |-> 5].*)
(* Square roots are integer square roots, and the normalised curves of the *)
(* shape test are kept in thousandths (FIX).                               *)
(* Indices.  The code's arrays are 0-based; sequences here are 1-based, so *)
(* strokes[strokeNum] of the code is strokes[strokeNum + 1] here.          *)
(***************************************************************************)
EXTENDS Integers, Sequences, FiniteSets, TLC

VARIABLES
    characterState,  \* usePromise state: [status, data]
    quiz,            \* the quiz store's state: [active, index, mistakes, params]
    animator,        \* the animator store's state: [state]
    last,            \* the last operation: what was called, on what, and what it emitted
    round,           \* bookkeeping of the round begun by the last start()
    mt               \* a sample of the matcher: inputs and the result of getMatchData

vars == <<characterState, quiz, animator, last, round, mt>>

\* An optional value (an option that may be omitted, a reference that may be
\* null or undefined) is None or Some(v).
None == << >>
Some(v) == <<v>>
IsNone(o) == Len(o) = 0
Val(o) == o[1]

-----------------------------------------------------------------------------
(* Fractions *)

RECURSIVE GCD(_, _)
GCD(a, b) == IF b = 0 THEN a ELSE GCD(b, a % b)

Abs(x) == IF x < 0 THEN -x ELSE x

\* n/d in lowest terms, d > 0
Frac(n, d) ==
    LET g == GCD(Abs(n), Abs(d))
        s == IF d < 0 THEN -1 ELSE 1
    IN [n |-> s * (n \div g), d |-> s * (d \div g)]

FracLeq(a, b) == a.n * b.d <= b.n * a.d
FracLess(a, b) == a.n * b.d < b.n * a.d
FracMul(a, b) == Frac(a.n * b.n, a.d * b.d)
FracAdd(a, b) == Frac(a.n * b.d + b.n * a.d, a.d * b.d)
FracInt(k) == [n |-> k, d |-> 1]

\* The digits of the fixed point numbers of the shape test.
FIX == 10 * 10 * 10

RECURSIVE SqrtSearch(_, _, _)
SqrtSearch(n, lo, hi) ==
    IF lo >= hi THEN lo
    ELSE LET mid == (lo + hi + 1) \div 2
         IN IF mid * mid <= n THEN SqrtSearch(n, mid, hi)
            ELSE SqrtSearch(n, lo, mid - 1)

\* Math.sqrt on the integers: the largest r with r*r <= n
ISqrt(n) == SqrtSearch(n, 0, 46340)

Reverse(s) == [i \in 1..Len(s) |-> s[Len(s) + 1 - i]]

RECURSIVE SumSeq(_)
SumSeq(s) == IF s = <<>> THEN 0 ELSE Head(s) + SumSeq(Tail(s))

RECURSIVE MinSeq(_)
MinSeq(s) ==
    IF Len(s) = 1 THEN s[1]
    ELSE LET m == MinSeq(Tail(s)) IN IF s[1] < m THEN s[1] ELSE m

RECURSIVE MaxSeq(_)
MaxSeq(s) ==
    IF Len(s) = 1 THEN s[1]
    ELSE LET m == MaxSeq(Tail(s)) IN IF s[1] > m THEN s[1] ELSE m

Pt(x, y) == [x |-> x, y |-> y]

-----------------------------------------------------------------------------
(* Geometry kernel ('../geometry'), modelled from section 4.1 of the       *)
(* specification: the file is not part of the sources.                     *)

subtract(p1, p2) == Pt(p1.x - p2.x, p1.y - p2.y)

magnitude(p) == ISqrt(p.x * p.x + p.y * p.y)

distance(p1, p2) == magnitude(subtract(p1, p2))

equals(p1, p2) == p1.x = p2.x /\ p1.y = p2.y

\* sum of consecutive segment lengths
length(points) ==
    SumSeq([i \in 1..(Len(points) - 1) |-> distance(points[i + 1], points[i])])

\* dot / (|v1| |v2|) in thousandths; 0 if either vector has zero length
cosineSimilarity(v1, v2) ==
    LET dot == v1.x * v2.x + v1.y * v2.y
        m == magnitude(v1) * magnitude(v2)
    IN IF m = 0 THEN 0 ELSE (dot * FIX) \div m

\* cos and sin of the angle k * pi/32, k in -2..2, in thousandths
CosPi32(k) == IF k = 0 THEN 1000 ELSE IF Abs(k) = 1 THEN 995 ELSE 981
SinPi32(k) ==
    LET s == IF Abs(k) = 0 THEN 0 ELSE IF Abs(k) = 1 THEN 98 ELSE 195
    IN IF k < 0 THEN -s ELSE s

\* rotate about the origin by k * pi/32
rotate(curve, k) ==
    [i \in 1..Len(curve) |->
        Pt((CosPi32(k) * curve[i].x - SinPi32(k) * curve[i].y) \div FIX,
           (SinPi32(k) * curve[i].x + CosPi32(k) * curve[i].y) \div FIX)]

\* translate the first point to the origin, scale the path length to 1 (FIX)
normalizeCurve(curve) ==
    LET len == length(curve)
    IN [i \in 1..Len(curve) |->
           Pt(((curve[i].x - curve[1].x) * FIX) \div len,
              ((curve[i].y - curve[1].y) * FIX) \div len)]

Max2(a, b) == IF a > b THEN a ELSE b
Min2(a, b) == IF a < b THEN a ELSE b

\* discrete Frechet distance: dynamic programming over the Len(c1) x Len(c2) grid
frechetDist(c1, c2) ==
    LET ca[ij \in (1..Len(c1)) \X (1..Len(c2))] ==
            Max2(distance(c1[ij[1]], c2[ij[2]]),
                 IF ij[1] = 1 /\ ij[2] = 1 THEN 0
                 ELSE IF ij[1] = 1 THEN ca[<<1, ij[2] - 1>>]
                 ELSE IF ij[2] = 1 THEN ca[<<ij[1] - 1, 1>>]
                 ELSE Min2(ca[<<ij[1] - 1, ij[2]>>],
                           Min2(ca[<<ij[1] - 1, ij[2] - 1>>],
                                ca[<<ij[1], ij[2] - 1>>])))
    IN ca[<<Len(c1), Len(c2)>>]

-----------------------------------------------------------------------------
(* Positioner *)

\* CHARACTER_BOUNDS: from = (0, -124), to = (1024, 900)
FromX == 0
FromY == -124
ToX == 1024
ToY == 900
preScaledWidth == ToX - FromX
preScaledHeight == ToY - FromY

\* new Positioner({ height: 300, width: 300, padding: 0 })
SurfaceSize == 300
SurfacePadding == 0

\* scale, xOffset and yOffset as fractions
Positioner(options) ==
    LET effectiveWidth == options.width - 2 * options.padding
        effectiveHeight == options.height - 2 * options.padding
        scaleX == Frac(effectiveWidth, preScaledWidth)
        scaleY == Frac(effectiveHeight, preScaledHeight)
        scale == IF FracLeq(scaleX, scaleY) THEN scaleX ELSE scaleY
        half == [n |-> 1, d |-> 2]
        xCenteringBuffer ==
            FracAdd(FracInt(options.padding),
                    FracMul(half, FracAdd(FracInt(effectiveWidth),
                                          FracMul(FracInt(-preScaledWidth), scale))))
        yCenteringBuffer ==
            FracAdd(FracInt(options.padding),
                    FracMul(half, FracAdd(FracInt(effectiveHeight),
                                          FracMul(FracInt(-preScaledHeight), scale))))
    IN [padding |-> options.padding, width |-> options.width,
        height |-> options.height, scale |-> scale,
        xOffset |-> FracAdd(FracMul(FracInt(-1 * FromX), scale), xCenteringBuffer),
        yOffset |-> FracAdd(FracMul(FracInt(-1 * FromY), scale), yCenteringBuffer)]

\* a fraction rounded down to an integer coordinate
FracFloor(f) == f.n \div f.d

FracNeg(f) == [n |-> -f.n, d |-> f.d]
FracSub(a, b) == FracAdd(a, FracNeg(b))
FracDiv(a, b) == Frac(a.n * b.d, a.d * b.n)

\* a point of integer coordinates as a point of fractions
FracPt(p) == Pt(FracInt(p.x), FracInt(p.y))

\* a point of fractions on the integer grid the matcher is evaluated on
gridPoint(p) == Pt(FracFloor(p.x), FracFloor(p.y))

\* a conversion that keeps the surface's direction of y
convertExternalPointNoFlip(pos, point) ==
    Pt(FracDiv(FracSub(point.x, pos.xOffset), pos.scale),
       FracDiv(FracSub(point.y, pos.yOffset), pos.scale))

\* x = (point.x - xOffset) / scale, y = (height - yOffset - point.y) / scale;
\* the coordinates of point and of the result are fractions
convertExternalPoint(pos, point) ==
    Pt(FracDiv(FracSub(point.x, pos.xOffset), pos.scale),
       FracDiv(FracSub(FracSub(FracInt(pos.height), pos.yOffset), point.y),
               pos.scale))

positioner ==
    Positioner([height |-> SurfaceSize, width |-> SurfaceSize,
                padding |-> SurfacePadding])

-----------------------------------------------------------------------------
(* Character model *)

\* new Stroke(path, points, strokeNum, isInRadical); the path is not modelled
Stroke(points, strokeNum, isInRadical) ==
    [points |-> points, strokeNum |-> strokeNum, isInRadical |-> isInRadical]

getStartingPoint(stroke) == stroke.points[1]

getEndingPoint(stroke) == stroke.points[Len(stroke.points)]

getLength(stroke) == length(stroke.points)

getVectors(stroke) ==
    [i \in 1..(Len(stroke.points) - 1) |->
        subtract(stroke.points[i + 1], stroke.points[i])]

\* the minimum distance from point to any sample point of the stroke
getDistance(stroke, point) ==
    MinSeq([i \in 1..Len(stroke.points) |-> distance(stroke.points[i], point)])

\* totalDist / points.length, as a fraction
getAverageDistance(stroke, points) ==
    Frac(SumSeq([i \in 1..Len(points) |-> getDistance(stroke, points[i])]),
         Len(points))

\* charJson = [strokes (one entry per path), medians, radStrokes]
generateStrokes(charJson) ==
    [i \in 1..Len(charJson.strokes) |->
        Stroke(charJson.medians[i], i - 1, (i - 1) \in charJson.radStrokes)]

Character(symbol, strokes) == [symbol |-> symbol, strokes |-> strokes]

parseCharData(symbol, charJson) == Character(symbol, generateStrokes(charJson))

-----------------------------------------------------------------------------
(* Stroke matcher *)

AVG_DIST_THRESHOLD == 350
COSINE_SIMILARITY_THRESHOLD == 0
START_AND_END_DIST_THRESHOLD == 250
\* FRECHET_THRESHOLD = 0.4 and MIN_LEN_THRESHOLD = 0.35
FRECHET_THRESHOLD == [n |-> 2, d |-> 5]
MIN_LEN_THRESHOLD == [n |-> 7, d |-> 20]

startAndEndMatches(points, closestStroke, leniency) ==
    LET startingDist == distance(getStartingPoint(closestStroke), points[1])
        endingDist == distance(getEndingPoint(closestStroke), points[Len(points)])
        limit == FracMul(FracInt(START_AND_END_DIST_THRESHOLD), leniency)
    IN FracLeq(FracInt(startingDist), limit) /\ FracLeq(FracInt(endingDist), limit)

getEdgeVectors(points) ==
    [i \in 1..(Len(points) - 1) |-> subtract(points[i + 1], points[i])]

\* the average, over the user's edges, of the best cosine similarity with an
\* edge of the stroke must exceed the threshold
directionMatches(points, stroke) ==
    LET edgeVectors == getEdgeVectors(points)
        strokeVectors == getVectors(stroke)
        similarities ==
            [e \in 1..Len(edgeVectors) |->
                MaxSeq([v \in 1..Len(strokeVectors) |->
                           cosineSimilarity(strokeVectors[v], edgeVectors[e])])]
    IN SumSeq(similarities) > COSINE_SIMILARITY_THRESHOLD * FIX * Len(similarities)

lengthMatches(points, stroke, leniency) ==
    FracLeq(MIN_LEN_THRESHOLD,
            FracMul(leniency, Frac(length(points) + 25, getLength(stroke) + 25)))

RECURSIVE DedupFrom(_, _)
DedupFrom(dedupedPoints, rest) ==
    IF rest = <<>> THEN dedupedPoints
    ELSE IF ~equals(Head(rest), dedupedPoints[Len(dedupedPoints)])
         THEN DedupFrom(Append(dedupedPoints, Head(rest)), Tail(rest))
         ELSE DedupFrom(dedupedPoints, Tail(rest))

stripDuplicates(points) ==
    IF Len(points) < 2 THEN points
    ELSE DedupFrom(<<Head(points)>>, Tail(points))

\* pi/16, pi/32, 0, -pi/32, -pi/16 in units of pi/32
SHAPE_FIT_ROTATIONS == <<2, 1, 0, -1, -2>>

shapeFit(curve1, curve2, leniency) ==
    LET normCurve1 == normalizeCurve(curve1)
        normCurve2 == normalizeCurve(curve2)
        minDist ==
            MinSeq([t \in 1..Len(SHAPE_FIT_ROTATIONS) |->
                       frechetDist(normCurve1,
                                   rotate(normCurve2, SHAPE_FIT_ROTATIONS[t]))])
    IN FracLeq(Frac(minDist, FIX), FracMul(FRECHET_THRESHOLD, leniency))

\* the defaults of the destructured options
OptLeniency(options) ==
    IF IsNone(options.leniency) THEN FracInt(1) ELSE Val(options.leniency)
OptOutline(options) ==
    IF IsNone(options.isOutlineVisible) THEN FALSE ELSE Val(options.isOutlineVisible)
OptBackwards(options) ==
    IF IsNone(options.checkBackwards) THEN TRUE ELSE Val(options.checkBackwards)

MatchData(isMatch, avgDist, isStrokeBackwards) ==
    [isMatch |-> isMatch, avgDist |-> avgDist,
     meta |-> [isStrokeBackwards |-> isStrokeBackwards]]

\* avgDist <= AVG_DIST_THRESHOLD * distMod * leniency
withinDistThresh(avgDist, stroke, options) ==
    FracLeq(avgDist,
            FracMul(FracMul(FracInt(AVG_DIST_THRESHOLD),
                            IF OptOutline(options) \/ stroke.strokeNum > 0
                            THEN [n |-> 1, d |-> 2] ELSE FracInt(1)),
                    OptLeniency(options)))

\* the four criteria evaluated once the average distance is within its threshold
criteriaMatch(points, stroke, leniency) ==
    /\ startAndEndMatches(points, stroke, leniency)
    /\ directionMatches(points, stroke)
    /\ shapeFit(points, stroke.points, leniency)
    /\ lengthMatches(points, stroke, leniency)

RECURSIVE getMatchData(_, _, _)

\* a getMatchData whose backwards retry reports the stroke as a match
matchDataResultAsMatch(points, stroke, options, avgDist, isMatch) ==
    IF OptBackwards(options) /\ ~isMatch
       /\ getMatchData(Reverse(points), stroke,
                       [options EXCEPT !.checkBackwards = Some(FALSE)]).isMatch
    THEN MatchData(TRUE, avgDist, TRUE)
    ELSE MatchData(isMatch, avgDist, FALSE)

\* the end of getMatchData: the backwards retry and the result
matchDataResult(points, stroke, options, avgDist, isMatch) ==
    IF OptBackwards(options) /\ ~isMatch
       /\ getMatchData(Reverse(points), stroke,
                       [options EXCEPT !.checkBackwards = Some(FALSE)]).isMatch
    THEN MatchData(isMatch, avgDist, TRUE)
    ELSE MatchData(isMatch, avgDist, FALSE)

\* getMatchData once avgDist is known: the short circuit, then the criteria
matchDataFor(points, stroke, options, avgDist) ==
    IF ~withinDistThresh(avgDist, stroke, options)
    THEN MatchData(FALSE, avgDist, FALSE)
    ELSE matchDataResult(points, stroke, options, avgDist,
                         criteriaMatch(points, stroke, OptLeniency(options)))

getMatchData(points, stroke, options) ==
    matchDataFor(points, stroke, options, getAverageDistance(stroke, points))

\* what strokeMatches returns; threw: a TypeError left the function instead
MatchResult(isMatch, meta) == [threw |-> FALSE, isMatch |-> isMatch, meta |-> meta]
MatchThrew == [threw |-> TRUE, isMatch |-> FALSE, meta |-> [isStrokeBackwards |-> FALSE]]

\* if (isMatchTwo && avgDistTwo < closestMatchDist) closestMatchDist = avgDistTwo
closerMatch(two, closestMatchDist) ==
    IF two.isMatch /\ FracLess(two.avgDist, closestMatchDist)
    THEN two.avgDist ELSE closestMatchDist

\* the loop over laterStrokes, from strokes[i] on: the smallest average
\* distance of a later stroke that matches and is closer
RECURSIVE closestLater(_, _, _, _, _)
closestLater(points, strokes, i, options, closestMatchDist) ==
    IF i > Len(strokes) THEN closestMatchDist
    ELSE closestLater(points, strokes, i + 1, options,
                      closerMatch(getMatchData(points, strokes[i],
                                      [options EXCEPT !.checkBackwards = Some(FALSE)]),
                                  closestMatchDist))

\* options.leniency || 1: an omitted or zero leniency counts as the default
LeniencyOr(leniency, default) ==
    IF IsNone(leniency) \/ Val(leniency).n = 0 THEN default ELSE Val(leniency)

\* a leniency adjustment without the factor 0.6
leniencyAdjustmentWhole(closestMatchDist, avgDistOne) ==
    FracMul(FracAdd(closestMatchDist, avgDistOne),
            Frac(avgDistOne.d, 2 * avgDistOne.n))

\* (0.6 * (closestMatchDist + avgDistOne)) / (2 * avgDistOne)
leniencyAdjustment(closestMatchDist, avgDistOne) ==
    FracMul([n |-> 3, d |-> 5],
            FracMul(FracAdd(closestMatchDist, avgDistOne),
                    Frac(avgDistOne.d, 2 * avgDistOne.n)))

\* the result of strokeMatches when a later stroke is a better match
stricterMatch(match) == MatchResult(match.isMatch, match.meta)

\* strokeMatches after the loop over the later strokes
matchAgainstLater(points, stroke, options, one, closestMatchDist) ==
    IF FracLess(closestMatchDist, one.avgDist)
    THEN stricterMatch(
             getMatchData(points, stroke,
                 [options EXCEPT !.leniency =
                     Some(FracMul(LeniencyOr(options.leniency, FracInt(1)),
                                  leniencyAdjustment(closestMatchDist, one.avgDist)))]))
    ELSE MatchResult(one.isMatch, one.meta)

\* strokeMatches after the first getMatchData; one is its result
matchAfterFirst(points, strokes, strokeNum, options, one) ==
    IF ~one.isMatch THEN MatchResult(one.isMatch, one.meta)
    ELSE matchAgainstLater(points, strokes[strokeNum + 1], options, one,
                           closestLater(points, strokes, strokeNum + 2, options,
                                        one.avgDist))

\* a strokeMatches that evaluates the stroke before it counts the points
matchPointsStrokeFirst(points, strokes, strokeNum, options) ==
    IF strokeNum + 1 \notin 1..Len(strokes) THEN MatchThrew
    ELSE IF Len(points) < 2 THEN MatchResult(FALSE, [isStrokeBackwards |-> FALSE])
    ELSE matchAfterFirst(points, strokes, strokeNum, options,
                         getMatchData(points, strokes[strokeNum + 1], options))

\* strokeMatches on the deduplicated points
matchPoints(points, strokes, strokeNum, options) ==
    IF Len(points) < 2 THEN MatchResult(FALSE, [isStrokeBackwards |-> FALSE])
    \* strokes[strokeNum] is undefined: getMatchData reads stroke.getAverageDistance
    ELSE IF strokeNum + 1 \notin 1..Len(strokes) THEN MatchThrew
    ELSE matchAfterFirst(points, strokes, strokeNum, options,
                         getMatchData(points, strokes[strokeNum + 1], options))

\* options = [leniency, isOutlineVisible]; strokeNum is 0-based
strokeMatches(userPoints, character, strokeNum, options) ==
    matchPoints(stripDuplicates(userPoints), character.strokes, strokeNum,
                [leniency |-> options.leniency,
                 isOutlineVisible |-> options.isOutlineVisible,
                 checkBackwards |-> None])

-----------------------------------------------------------------------------
(* The characters a loader can return, and the strokes a user can draw *)

\* raw character data, as the loader returns it: one median list per stroke path
CharJson(medians) ==
    [strokes |-> [i \in 1..Len(medians) |-> "path"], medians |-> medians,
     radStrokes |-> {}]

\* "yi": one horizontal stroke.  "er": two horizontal strokes, the upper one
\* first.  "empty": character data without strokes.
CharData ==
    [yi |-> CharJson(<< <<Pt(256, 388), Pt(768, 388)>> >>),
     er |-> CharJson(<< <<Pt(256, 516), Pt(768, 516)>>,
                        <<Pt(256, 324), Pt(768, 324)>> >>),
     empty |-> CharJson(<< >>)]

Symbols == DOMAIN CharData

\* Point sequences on the 300 x 300 drawing surface (y grows downwards):
\* along the upper stroke of "er" (top, topBack, dupTop), between its strokes
\* (mid, mid3), along its lower stroke (bottom), along the lower edge of the
\* surface (far), and sequences of fewer than two distinct points.
Gestures ==
    [top      |-> <<Pt(75, 112), Pt(225, 112)>>,
     topBack  |-> <<Pt(225, 112), Pt(75, 112)>>,
     dupTop   |-> <<Pt(75, 112), Pt(75, 112), Pt(225, 112)>>,
     mid      |-> <<Pt(75, 150), Pt(225, 150)>>,
     mid3     |-> <<Pt(75, 150), Pt(150, 150), Pt(225, 150)>>,
     bottom   |-> <<Pt(75, 168), Pt(225, 168)>>,
     far      |-> <<Pt(75, 300), Pt(225, 300)>>,
     point    |-> <<Pt(75, 150)>>,
     same     |-> <<Pt(75, 150), Pt(75, 150)>>,
     empty    |-> << >>]

GestureNames == DOMAIN Gestures

-----------------------------------------------------------------------------
(* Stores *)

\* createStoreApi(...).setState: state = { ...state, ...newState }
setState(state, newState) ==
    [k \in DOMAIN state |-> IF k \in DOMAIN newState THEN newState[k] ELSE state[k]]

\* createQuizStore(character): the initial state of the quiz store
createQuizStore(character) ==
    [character |-> character, active |-> FALSE, mistakes |-> << >>, index |-> 0,
     params |-> None]

\* useCharacterAnimator: the initial state of the animator store (the fields
\* the quiz and its callers read)
createAnimatorStore(character) == [character |-> character, state |-> "stopped"]

\* animateCharacter(params)
animateCharacter(store) == setState(store, [state |-> "playing"])

\* cancelAnimation()
cancelAnimation(store) == setState(store, [state |-> "stopped"])

-----------------------------------------------------------------------------
(* Quiz *)

\* The StartQuizParams a caller passes.  A handler field tells whether the
\* handler was supplied.  leniency 0.5 is [1, 2].
QuizParams(leniency, acceptBackwardsStrokes, quizStartStrokeNum, handlers) ==
    [leniency |-> leniency, acceptBackwardsStrokes |-> acceptBackwardsStrokes,
     quizStartStrokeNum |-> quizStartStrokeNum, onMistake |-> handlers,
     onCorrectStroke |-> handlers, onComplete |-> handlers]

ParamsSet ==
    {QuizParams(Some(FracInt(1)), Some(FALSE), Some(0), TRUE),
     QuizParams(None, Some(TRUE), None, TRUE),
     QuizParams(Some(FracInt(1)), None, Some(5), FALSE),
     QuizParams(None, Some(FALSE), Some(-1), TRUE),
     QuizParams(Some(FracInt(1)), Some(TRUE), Some(1), TRUE)}

\* Events delivered to the handlers given to start()
MistakeEvent(strokeNum, mistakesOnStroke, totalMistakes, isBackwards, strokesRemaining) ==
    [type |-> "onMistake", strokeNum |-> strokeNum,
     mistakesOnStroke |-> mistakesOnStroke, totalMistakes |-> totalMistakes,
     isBackwards |-> isBackwards, strokesRemaining |-> strokesRemaining]

CompleteEvent(totalMistakes) ==
    [type |-> "onComplete", totalMistakes |-> totalMistakes]

\* An event as its handler meets it: store is what quizStore.getState() returns
\* while the handler runs
Delivered(event, state) == event @@ [store |-> state]

\* What a call leaves behind: the store's state, the events emitted, whether it
\* threw, and (start) whether the animation was cancelled.
Outcome(q, events, threw, cancelled) ==
    [quiz |-> q, events |-> events, threw |-> threw, cancelled |-> cancelled,
     published |-> << >>]

\* a setState whose subscribers are called before the state is replaced
PublicationEarly(state, newState) ==
    [seen |-> state, held |-> state]

\* One setState(newState) as the store's clients meet it: seen is the state
\* the subscribers find when they are called, held what a snapshot taken by
\* getState() before the call holds afterwards.
Publication(state, newState) ==
    [seen |-> setState(state, newState), held |-> state]

\* What a call that ends in quizStore.setState(newState) leaves behind
Committed(q, newState, events, cancelled) ==
    [quiz |-> setState(q, newState), events |-> events, threw |-> FALSE,
     cancelled |-> cancelled, published |-> <<Publication(q, newState)>>]

\* mistakes[index] || 0
MistakesAt(mistakes, index) ==
    IF index \in DOMAIN mistakes THEN mistakes[index] ELSE 0

\* a mistakes mapping that keeps the current stroke's count only
WithMistakeOnly(mistakes, index, numMistakes) ==
    [k \in {index} |-> numMistakes]

\* a mistakes mapping that counts the mistake on the stroke after the current
WithMistakeAtNext(mistakes, index, numMistakes) ==
    [k \in DOMAIN mistakes \cup {index + 1} |->
        IF k = index + 1 THEN numMistakes ELSE mistakes[k]]

\* { ...mistakes, [index]: numMistakes }
WithMistake(mistakes, index, numMistakes) ==
    [k \in DOMAIN mistakes \cup {index} |->
        IF k = index THEN numMistakes ELSE mistakes[k]]

\* Object.keys(mistakes).length
KeyCount(mistakes) == Cardinality(DOMAIN mistakes)

\* the UserStroke check() builds: every external point through the positioner
userStrokePoints(simplifiedPoints) ==
    [i \in 1..Len(simplifiedPoints) |->
        gridPoint(convertExternalPoint(positioner, FracPt(simplifiedPoints[i])))]

\* the options check() hands to strokeMatches: leniency: params?.leniency || 1.2
checkOptions(params) ==
    [leniency |->
        Some(LeniencyOr(IF IsNone(params) THEN None ELSE Val(params).leniency,
                        Frac(6, 5))),
     isOutlineVisible |-> None]

\* an acceptance rule that takes every backwards stroke
isAcceptedAnyBackwards(match, params) ==
    match.isMatch \/ match.meta.isStrokeBackwards

\* isMatch || (meta.isStrokeBackwards && params?.acceptBackwardsStrokes)
isAccepted(match, params) ==
    \/ match.isMatch
    \/ /\ match.meta.isStrokeBackwards
       /\ ~IsNone(params)
       /\ Val(params).acceptBackwardsStrokes = Some(TRUE)

\* the rejected branch of check()
checkRejected(q, characterClass, match) ==
    LET numMistakes == MistakesAt(q.mistakes, q.index) + 1
        q2 == setState(q, [mistakes |-> WithMistake(q.mistakes, q.index, numMistakes)])
        event == MistakeEvent(q.index, numMistakes, KeyCount(q.mistakes),
                              match.meta.isStrokeBackwards,
                              Len(characterClass.strokes) - q.index)
    IN Committed(q, [mistakes |-> WithMistake(q.mistakes, q.index, numMistakes)],
                 IF ~IsNone(q2.params) /\ Val(q2.params).onMistake
                 THEN <<Delivered(event, q2)>> ELSE << >>,
                 FALSE)

\* the mistakes of all strokes, summed
RECURSIVE MistakeSum(_)
MistakeSum(mistakes) ==
    IF DOMAIN mistakes = {} THEN 0
    ELSE LET k == CHOOSE i \in DOMAIN mistakes : TRUE
         IN mistakes[k] + MistakeSum([j \in DOMAIN mistakes \ {k} |-> mistakes[j]])

\* an accepted branch that reports the summed mistakes as totalMistakes
checkAcceptedSummed(q, characterClass) ==
    LET active == q.index < Len(characterClass.strokes) - 1
        events == IF ~active /\ ~IsNone(q.params) /\ Val(q.params).onComplete
                  THEN <<Delivered(CompleteEvent(MistakeSum(q.mistakes)), q)>>
                  ELSE << >>
    IN Committed(q, [index |-> IF active THEN q.index + 1 ELSE 0,
                            active |-> active],
               events, FALSE)

\* the accepted branch of check()
checkAccepted(q, characterClass) ==
    LET active == q.index < Len(characterClass.strokes) - 1
        events == IF ~active /\ ~IsNone(q.params) /\ Val(q.params).onComplete
                  \* params?.onComplete?.(...) runs before quizStore.setState
                  THEN <<Delivered(CompleteEvent(KeyCount(q.mistakes)), q)>>
                  ELSE << >>
    IN Committed(q, [index |-> IF active THEN q.index + 1 ELSE 0,
                            active |-> active],
               events, FALSE)

\* check() after strokeMatches returned match
checkMatched(q, characterClass, match) ==
    IF match.threw THEN Outcome(q, << >>, TRUE, FALSE)
    ELSE IF ~isAccepted(match, q.params)
         THEN checkRejected(q, characterClass, match)
         ELSE checkAccepted(q, characterClass)

\* Every <<points, character, strokeNum, options>> check() can hand to
\* strokeMatches: the gestures, the characters, their stroke numbers and the
\* leniencies of ParamsSet (and of no params).
matchCases ==
    UNION {{<<userStrokePoints(Gestures[g]), parseCharData(sym, CharData[sym]), i,
              checkOptions(p)>> :
               g \in GestureNames,
               i \in 0..Max2(Len(CharData[sym].strokes) - 1, 0),
               p \in {None} \cup {Some(params) : params \in ParamsSet}} :
           sym \in Symbols}

\* strokeMatches, tabulated once over matchCases
matchTable == [c \in matchCases |-> strokeMatches(c[1], c[2], c[3], c[4])]

\* quiz.check(simplifiedPoints); characterClass is None until the load resolved
check(q, characterClass, simplifiedPoints) ==
    IF IsNone(characterClass) THEN Outcome(q, << >>, FALSE, FALSE)
    ELSE IF Len(simplifiedPoints) = 0
         \* convertExternalPoint(undefined) reads point.x
         THEN Outcome(q, << >>, TRUE, FALSE)
    ELSE checkMatched(q, Val(characterClass),
                      matchTable[<<userStrokePoints(simplifiedPoints),
                                   Val(characterClass), q.index,
                                   checkOptions(q.params)>>])

\* params.quizStartStrokeNum || 0
StartStrokeNum(params) ==
    IF IsNone(params.quizStartStrokeNum) THEN 0 ELSE Val(params.quizStartStrokeNum)

\* a start index without the lower clamp
startIndexNoFloor(params, characterClass) ==
    Min2(StartStrokeNum(params), Len(characterClass.strokes) - 1)

\* Math.max(Math.min(params.quizStartStrokeNum || 0, strokes.length - 1), 0)
startIndex(params, characterClass) ==
    Max2(Min2(StartStrokeNum(params), Len(characterClass.strokes) - 1), 0)

\* a start() without the guard on characterClass: it cancels the animation and
\* then reads characterClass.strokes
startUnguarded(q, characterClass, params) ==
    IF IsNone(characterClass)
    THEN Outcome(q, << >>, TRUE, TRUE)
    ELSE Committed(q, [active |-> TRUE,
                              index |-> Max2(Min2(StartStrokeNum(params),
                                                  Len(Val(characterClass).strokes) - 1), 0),
                              mistakes |-> << >>, params |-> Some(params)],
                 << >>, TRUE)

\* a start() that keeps the mistakes of the round before
startKeepsMistakes(q, characterClass, params) ==
    IF IsNone(characterClass)
    THEN Outcome(q, << >>, FALSE, FALSE)
    ELSE Committed(q, [active |-> TRUE,
                              index |-> Max2(Min2(StartStrokeNum(params),
                                                  Len(Val(characterClass).strokes) - 1), 0),
                              params |-> Some(params)],
                 << >>, TRUE)

\* a start() that leaves the animation running
startKeepsAnimation(q, characterClass, params) ==
    IF IsNone(characterClass)
    THEN Outcome(q, << >>, FALSE, FALSE)
    ELSE Committed(q, [active |-> TRUE,
                              index |-> Max2(Min2(StartStrokeNum(params),
                                                  Len(Val(characterClass).strokes) - 1), 0),
                              mistakes |-> << >>, params |-> Some(params)],
                 << >>, FALSE)

\* quiz.start(params)
start(q, characterClass, params) ==
    IF IsNone(characterClass)
    \* console.warn("Can't start quiz, character not loaded yet")
    THEN Outcome(q, << >>, FALSE, FALSE)
    ELSE Committed(q, [active |-> TRUE,
                              index |-> startIndex(params, Val(characterClass)),
                              mistakes |-> << >>, params |-> Some(params)],
                 << >>, TRUE)

\* a stop() that keeps the params of the round
stopKeepsParams(q) ==
    Committed(q, [active |-> FALSE, index |-> 0, mistakes |-> << >>],
            << >>, FALSE)

\* quiz.stop()
stop(q) ==
    Committed(q, [active |-> FALSE, index |-> 0, mistakes |-> << >>,
                         params |-> None],
            << >>, FALSE)

\* useHanziWriter: characterClass
characterClassOf(state) ==
    IF state.status = "resolved" THEN state.data ELSE None

-----------------------------------------------------------------------------
(* The hook: state, operations *)

\* the most mistakes the model lets one stroke collect
MaxMistakes == 2

\* the matcher is not sampled in this specification
NoSample == [phase |-> "off"]

NoRound ==
    [open |-> FALSE, start |-> 0, accepted |-> 0, rejected |-> {}, completes |-> 0,
     total |-> None, params |-> None, completed |-> FALSE]

\* the record of the last call: pre is the quiz state it found, loaded whether
\* a character was loaded when it was made, anim the animator's state before
\* and after it
Last(op, gesture, params, pre, loaded, anim, o) ==
    [op |-> op, gesture |-> gesture, params |-> params, pre |-> pre,
     loaded |-> loaded, anim |-> anim, threw |-> o.threw, events |-> o.events,
     cancelled |-> o.cancelled, published |-> o.published]

\* the animator's state before and after a call
Anim(pre, post) == [pre |-> pre, post |-> post]

symbol == quiz.character

characterClass == characterClassOf(characterState)

Init ==
    \E sym \in Symbols :
        /\ characterState = [status |-> "idle", data |-> None]
        /\ quiz = createQuizStore(sym)
        /\ animator = createAnimatorStore(sym)
        /\ last = Last("init", "", None, createQuizStore(sym), FALSE,
                       Anim("stopped", "stopped"),
                       Outcome(createQuizStore(sym), << >>, FALSE, FALSE))
        /\ round = NoRound
        /\ mt = NoSample

\* usePromise's effect: safeSetState({ status: 'pending' }) and the loader is called
LoadStart ==
    /\ characterState.status = "idle"
    /\ characterState' = [status |-> "pending", data |-> None]
    /\ UNCHANGED <<quiz, animator, last, round, mt>>

\* the loader's promise resolves: parseCharData(character, res)
LoadResolve ==
    /\ characterState.status = "pending"
    /\ characterState' =
           [status |-> "resolved",
            data |-> Some(parseCharData(symbol, CharData[symbol]))]
    /\ UNCHANGED <<quiz, animator, last, round, mt>>

\* the loader's promise rejects
LoadReject ==
    /\ characterState.status = "pending"
    /\ characterState' = [status |-> "rejected", data |-> None]
    /\ UNCHANGED <<quiz, animator, last, round, mt>>

\* writer.quiz.start(params); o is what start() leaves behind
StartDo(params, o) ==
    /\ quiz' = o.quiz
    /\ animator' = IF o.cancelled THEN cancelAnimation(animator) ELSE animator
    /\ last' = Last("start", "", Some(params), quiz, ~IsNone(characterClass),
                    Anim(animator.state, animator'.state), o)
    /\ round' = IF o.cancelled
                THEN [NoRound EXCEPT !.open = TRUE, !.start = o.quiz.index,
                                     !.params = Some(params)]
                ELSE round
    /\ UNCHANGED <<characterState, mt>>

Start(params) == StartDo(params, start(quiz, characterClass, params))

\* whether a check() that left outcome o behind accepted the stroke
Accepted(pre, o) ==
    /\ ~IsNone(characterClass)
    /\ ~o.threw
    /\ o.quiz.mistakes = pre.mistakes

\* whether it rejected the stroke
Rejected(pre, o) ==
    /\ ~IsNone(characterClass)
    /\ ~o.threw
    /\ o.quiz.mistakes # pre.mistakes

Sat(n, cap) == IF n > cap THEN cap ELSE n

\* the round's bookkeeping after a check() that left outcome o behind
RoundAfter(o) ==
    IF ~round.open THEN round
    ELSE [round EXCEPT
            !.accepted = IF Accepted(quiz, o)
                         THEN Sat(@ + 1, Len(Val(characterClass).strokes) + 1)
                         ELSE @,
            !.rejected = IF Rejected(quiz, o) /\ quiz.active
                         THEN @ \cup {quiz.index} ELSE @,
            !.completes = IF o.events # << >> /\ o.events[1].type = "onComplete"
                          THEN Sat(@ + 1, 2) ELSE @,
            !.total = IF o.events # << >> /\ o.events[1].type = "onComplete"
                      THEN Some(o.events[1].totalMistakes) ELSE @,
            !.completed = @ \/ (Accepted(quiz, o) /\ ~o.quiz.active)]

\* writer.quiz.check(points); o is what check() leaves behind
CheckDo(g, o) ==
    /\ \A k \in DOMAIN o.quiz.mistakes : o.quiz.mistakes[k] <= MaxMistakes
    /\ quiz' = o.quiz
    /\ last' = Last("check", g, None, quiz, ~IsNone(characterClass),
                    Anim(animator.state, animator.state), o)
    /\ round' = RoundAfter(o)
    /\ UNCHANGED <<characterState, animator, mt>>

Check(g) == CheckDo(g, check(quiz, characterClass, Gestures[g]))

\* writer.quiz.stop()
StopDo(o) ==
    /\ quiz' = o.quiz
    /\ last' = Last("stop", "", None, quiz, ~IsNone(characterClass),
                    Anim(animator.state, animator.state), o)
    /\ round' = NoRound
    /\ UNCHANGED <<characterState, animator, mt>>

Stop == StopDo(stop(quiz))

\* writer.animator.animateCharacter()
AnimateCharacter ==
    /\ animator' = animateCharacter(animator)
    /\ UNCHANGED <<characterState, quiz, last, round, mt>>

\* writer.animator.cancelAnimation()
CancelAnimation ==
    /\ animator' = cancelAnimation(animator)
    /\ UNCHANGED <<characterState, quiz, last, round, mt>>

Next ==
    \/ LoadStart
    \/ LoadResolve
    \/ LoadReject
    \/ \E params \in ParamsSet : Start(params)
    \/ \E g \in GestureNames : Check(g)
    \/ Stop
    \/ AnimateCharacter
    \/ CancelAnimation

Spec == Init /\ [][Next]_vars

-----------------------------------------------------------------------------
(* Properties of check() *)

\* the last call was a check() on a loaded character that returned
LastChecked == last.op = "check" /\ last.loaded /\ ~last.threw

\* ... and it took the accepted branch: the mistakes are as it found them
LastAccepted == LastChecked /\ quiz.mistakes = last.pre.mistakes

\* ... and it took the rejected branch
LastRejected == LastChecked /\ quiz.mistakes # last.pre.mistakes

\* the events of one type the last call emitted
EventsOf(type) == SelectSeq(last.events, LAMBDA e : e.type = type)

\* whether the params the last call found supply a handler
Supplied(handler) ==
    ~IsNone(last.pre.params) /\ Val(last.pre.params)[handler]

\* the number of strokes of the loaded character
strokeCount == Len(Val(characterClass).strokes)

\* C1: check() while the quiz is inactive changes nothing: the quiz state is
\* as it was, no handler is invoked and the quiz is not active afterwards.
C1_InactiveCheckIsNoOp ==
    (last.op = "check" /\ ~last.pre.active) =>
        /\ quiz = last.pre
        /\ last.events = << >>
        /\ ~quiz.active

\* C2: an accepted check() of an active quiz invokes onCorrectStroke exactly
\* once, a rejected one never.
C2_OnCorrectStrokeOnAcceptance ==
    (LastChecked /\ last.pre.active /\ Supplied("onCorrectStroke")) =>
        Len(EventsOf("onCorrectStroke")) = IF LastAccepted THEN 1 ELSE 0

\* C3: an accepted check() of the last stroke emits onComplete and leaves the
\* quiz inactive at index 0 with no mistakes; of another stroke, it moves the
\* index on by one and leaves the quiz active.
C3_AcceptedAdvancesOrResets ==
    (LastAccepted /\ last.pre.active) =>
        IF last.pre.index = strokeCount - 1
        THEN /\ Supplied("onComplete") => Len(EventsOf("onComplete")) = 1
             /\ ~quiz.active
             /\ quiz.index = 0
             /\ quiz.mistakes = << >>
        ELSE /\ quiz.index = last.pre.index + 1
             /\ quiz.active

C5_RejectedCountsOneMistake ==
    (LastRejected /\ last.pre.active) =>
        /\ quiz.active
        /\ quiz.index = last.pre.index
        /\ quiz.params = last.pre.params
        /\ quiz.character = last.pre.character
        /\ DOMAIN quiz.mistakes = DOMAIN last.pre.mistakes \cup {last.pre.index}
        /\ \A k \in DOMAIN quiz.mistakes :
              quiz.mistakes[k] =
                  IF k = last.pre.index
                  THEN MistakesAt(last.pre.mistakes, k) + 1
                  ELSE last.pre.mistakes[k]

C5_Witness ==
    /\ LastRejected /\ last.pre.active
    /\ last.pre.index = 1
    /\ 0 \in DOMAIN last.pre.mistakes
    /\ quiz.mistakes[1] = 2

\* C6: the onMistake event of a rejected check() carries the current index as
\* strokeNum, the new count of that stroke as mistakesOnStroke, and as
\* totalMistakes the mistakes of the round so far, this one included.
C6_MistakeEventTotals ==
    (LastRejected /\ last.pre.active /\ Supplied("onMistake")) =>
        /\ Len(EventsOf("onMistake")) = 1
        /\ LET event == EventsOf("onMistake")[1]
           IN /\ event.strokeNum = last.pre.index
              /\ event.mistakesOnStroke = quiz.mistakes[last.pre.index]
              /\ event.totalMistakes = MistakeSum(quiz.mistakes)
              /\ event.totalMistakes >= 1

\* what the matcher reported to the last check()
LastMatch ==
    matchTable[<<userStrokePoints(Gestures[last.gesture]), Val(characterClass),
                 last.pre.index, checkOptions(last.pre.params)>>]

\* the acceptance rule and the fate of a backwards-only stroke, for a check()
\* the matcher answered with match
AcceptanceRule(match, acceptBackwards) ==
    /\ LastAccepted <=>
           (match.isMatch \/ (match.meta.isStrokeBackwards /\ acceptBackwards))
    /\ (match.meta.isStrokeBackwards /\ ~match.isMatch /\ ~acceptBackwards) =>
           /\ LastRejected
           /\ quiz.mistakes[last.pre.index] =
                  MistakesAt(last.pre.mistakes, last.pre.index) + 1
           /\ Supplied("onMistake") =>
                  /\ Len(EventsOf("onMistake")) = 1
                  /\ EventsOf("onMistake")[1].isBackwards

\* C7: a stroke is accepted exactly if the matcher reports isMatch, or reports
\* isStrokeBackwards while acceptBackwardsStrokes is enabled; without the
\* option a backwards-only stroke is rejected, counted and reported with
\* isBackwards = true.
C7_AcceptanceRule ==
    (LastChecked /\ ~IsNone(last.pre.params)) =>
        AcceptanceRule(LastMatch,
                       Val(last.pre.params).acceptBackwardsStrokes = Some(TRUE))

C7_Witness ==
    /\ LastRejected /\ last.pre.active
    /\ Val(last.pre.params).acceptBackwardsStrokes = Some(FALSE)
    /\ LastMatch.meta.isStrokeBackwards /\ ~LastMatch.isMatch
    /\ Len(last.events) = 1
    /\ last.events[1].isBackwards

\* C14: during an active quiz reached through start(), check() never throws,
\* for any loaded character (one without strokes included) and any point
\* sequence (an empty one included): the stroke is accepted or rejected.
C14_CheckNeverThrows ==
    (last.op = "check" /\ last.loaded /\ last.pre.active
     /\ ~IsNone(last.pre.params)) =>
        /\ ~last.threw
        /\ LastAccepted \/ LastRejected

\* the leniency the documentation promises: the one given to start(), or 1
DocumentedLeniency(params) ==
    IF IsNone(params.leniency) THEN FracInt(1) ELSE Val(params.leniency)

\* what the matcher reports to the last check() at a given leniency
LastMatchAt(leniency) ==
    matchTable[<<userStrokePoints(Gestures[last.gesture]), Val(characterClass),
                 last.pre.index,
                 [leniency |-> Some(leniency), isOutlineVisible |-> None]>>]

\* C16: check() hands the matcher the leniency given to start(), and 1 when
\* start() was given none; the stroke is accepted or rejected accordingly.
C16_LeniencyPassed ==
    (LastChecked /\ ~IsNone(last.pre.params)) =>
        /\ checkOptions(last.pre.params).leniency =
               Some(DocumentedLeniency(Val(last.pre.params)))
        /\ LastAccepted <=>
               isAccepted(LastMatchAt(DocumentedLeniency(Val(last.pre.params))),
                          last.pre.params)

-----------------------------------------------------------------------------
(* Properties of start() *)

\* C9: start() while no character is loaded does not throw, leaves the quiz
\* state as it was and emits no event.
C9_StartNotReadyIsNoOp ==
    (last.op = "start" /\ ~last.loaded) =>
        /\ ~last.threw
        /\ quiz = last.pre
        /\ last.events = << >>

C9_Witness ==
    /\ last.op = "start" /\ ~last.loaded
    /\ characterState.status = "rejected"
    /\ quiz = last.pre /\ ~quiz.active

\* quizStartStrokeNum clamped into [0, n - 1]; omitted counts as 0
Clamped(quizStartStrokeNum, n) ==
    IF IsNone(quizStartStrokeNum) \/ Val(quizStartStrokeNum) < 0 THEN 0
    ELSE IF Val(quizStartStrokeNum) > n - 1 THEN n - 1
    ELSE Val(quizStartStrokeNum)

\* C10: start() on a loaded character of at least one stroke never throws and
\* sets index to quizStartStrokeNum clamped into [0, strokeCount - 1].
C10_StartIndexClamped ==
    (last.op = "start" /\ last.loaded /\ strokeCount >= 1) =>
        /\ ~last.threw
        /\ quiz.active
        /\ quiz.index = Clamped(Val(last.params).quizStartStrokeNum, strokeCount)

C10_Witness ==
    /\ last.op = "start" /\ last.loaded
    /\ Val(last.params).quizStartStrokeNum = Some(5)
    /\ strokeCount = 2
    /\ quiz.index = 1

\* C11: a start() on a loaded character leaves the quiz active at the clamped
\* start stroke (0 for a character without strokes), with no mistakes and the
\* params it was given, whatever the state before.
C11_StartResetsRound ==
    (last.op = "start" /\ last.loaded) =>
        /\ ~last.threw
        /\ quiz.active
        /\ quiz.index = IF strokeCount >= 1
                        THEN Clamped(Val(last.params).quizStartStrokeNum, strokeCount)
                        ELSE 0
        /\ quiz.mistakes = << >>
        /\ quiz.params = last.params
        /\ quiz.character = last.pre.character

C11_Witness ==
    /\ last.op = "start" /\ last.loaded
    /\ last.pre.active /\ last.pre.index = 1
    /\ last.pre.mistakes # << >>
    /\ last.pre.params # last.params
    /\ quiz.index = 0 /\ quiz.mistakes = << >>

\* C12: when a start() on a loaded character returns, the animator is
\* 'stopped', whether it was 'playing' or 'stopped' before, and the quiz is
\* active.
C12_StartCancelsAnimation ==
    (last.op = "start" /\ last.loaded) =>
        /\ last.anim.post = "stopped"
        /\ last.cancelled
        /\ quiz.active

C12_Witness ==
    /\ last.op = "start" /\ last.loaded
    /\ last.anim.pre = "playing"
    /\ last.anim.post = "stopped"
    /\ animator.state = "stopped"
    /\ quiz.active

-----------------------------------------------------------------------------
(* Properties of stop() *)

\* the state of a quiz that is not running
Stopped(character) ==
    [character |-> character, active |-> FALSE, index |-> 0, mistakes |-> << >>,
     params |-> None]

\* C13: stop() from any state leaves the quiz inactive at index 0 with no
\* mistakes and no params, emits no event, and a second stop() changes
\* nothing.
C13_StopResets ==
    (last.op = "stop") =>
        /\ ~last.threw
        /\ quiz = Stopped(last.pre.character)
        /\ last.events = << >>
        /\ stop(quiz).quiz = quiz
        /\ stop(quiz).events = << >>

C13_Witness ==
    /\ last.op = "stop"
    /\ last.pre.active /\ last.pre.index = 1
    /\ last.pre.mistakes # << >>
    /\ ~IsNone(last.pre.params)
    /\ quiz = Stopped("er")

-----------------------------------------------------------------------------
(* Properties of the quiz store *)

-----------------------------------------------------------------------------
(* Properties of the quiz state *)

\* C21: an inactive quiz has index 0 and no params, and an active quiz holds
\* the params of the most recent start().
C21_InactiveHasNoParams ==
    /\ ~quiz.active => quiz.index = 0 /\ IsNone(quiz.params)
    /\ quiz.active => round.open /\ quiz.params = round.params

\* C22: a handler runs after its transition: the state the store returns
\* while onMistake or onComplete runs is the state check() leaves behind, with
\* the incremented mistakes[index] in onMistake and the inactive quiz in
\* onComplete.
C22_EventsAfterTransition ==
    (last.op = "check") =>
        \A i \in 1..Len(last.events) :
            LET event == last.events[i] IN
            /\ event.store = quiz
            /\ event.type = "onMistake" =>
                   MistakesAt(event.store.mistakes, event.strokeNum)
                       = event.mistakesOnStroke
            /\ event.type = "onComplete" => ~event.store.active

\* between a start() and the next start(), stop() or completion
InRound == round.open /\ ~round.completed

\* the step is a call of op
Called(op) == last' # last /\ last'.op = op

\* the index is a stroke of the character, and in a round the mistakes are
\* those of strokes from the start stroke to the current one
IndexInRange ==
    /\ Len(CharData[symbol].strokes) >= 1 =>
           quiz.index \in 0..(Len(CharData[symbol].strokes) - 1)
    /\ InRound =>
           \A k \in DOMAIN quiz.mistakes : round.start <= k /\ k <= quiz.index

\* a step of a round that neither ends it nor starts another leaves the index
\* alone, but for an accepted check(), which adds one
IndexStep ==
    (InRound /\ ~Called("start") /\ ~Called("stop") /\ ~round'.completed) =>
        quiz'.index = IF Called("check") /\ LastAccepted'
                      THEN quiz.index + 1 ELSE quiz.index

\* C24: for a character with at least one stroke, 0 <= index <=
\* strokeCount - 1 in every state; between a start() and the next start(),
\* stop() or completion the index never decreases and changes only by +1 on
\* an accepted check(), and mistakes has entries only for strokes from the
\* start stroke to the current index.
C24_IndexWithinRound == []IndexInRange /\ [][IndexStep]_vars

C24_Witness ==
    /\ InRound
    /\ LastAccepted
    /\ round.start = 0
    /\ quiz.index = 1
    /\ DOMAIN quiz.mistakes = {0}

\* C29: the quiz is never active while the animator is playing.
C29_NeverActiveWhilePlaying ==
    ~(quiz.active /\ animator.state = "playing")

-----------------------------------------------------------------------------
(* The matcher on its own: Init draws a call's arguments, an action makes it *)

\* the leniencies sampled: omitted, 0.5, 1, 1.2, 2
Leniencies ==
    {None, Some(Frac(1, 2)), Some(FracInt(1)), Some(Frac(6, 5)), Some(FracInt(2))}

\* the arguments of a call of the matcher; the stroke numbers include the one
\* past the last stroke
MatchSamples ==
    UNION {[phase : {"input"}, gesture : GestureNames, sym : {sym},
            strokeNum : 0..Len(CharData[sym].strokes),
            options : [leniency : Leniencies,
                       isOutlineVisible : {None, Some(TRUE)},
                       checkBackwards : {None, Some(TRUE), Some(FALSE)}],
            result : {None}] :
           sym \in Symbols}

\* the points strokeMatches hands to getMatchData
samplePoints == stripDuplicates(userStrokePoints(Gestures[mt.gesture]))

sampleCharacter == parseCharData(mt.sym, CharData[mt.sym])

sampleStroke == sampleCharacter.strokes[mt.strokeNum + 1]

MatchInit ==
    /\ mt \in MatchSamples
    /\ characterState = [status |-> "idle", data |-> None]
    /\ quiz = createQuizStore(mt.sym)
    /\ animator = createAnimatorStore(mt.sym)
    /\ last = Last("init", "", None, createQuizStore(mt.sym), FALSE,
                   Anim("stopped", "stopped"),
                   Outcome(createQuizStore(mt.sym), << >>, FALSE, FALSE))
    /\ round = NoRound

Sampled(fn, result) ==
    /\ mt' = [mt EXCEPT !.phase = fn, !.result = Some(result)]
    /\ UNCHANGED <<characterState, quiz, animator, last, round>>

\* getMatchData(points, stroke, options), on points strokeMatches would pass
ApplyGetMatchData ==
    /\ mt.phase = "input"
    /\ Len(samplePoints) >= 2
    /\ mt.strokeNum < Len(sampleCharacter.strokes)
    /\ Sampled("getMatchData", getMatchData(samplePoints, sampleStroke, mt.options))

\* strokeMatches(userStroke, character, strokeNum, options)
ApplyStrokeMatches ==
    /\ mt.phase = "input"
    /\ Sampled("strokeMatches",
               strokeMatches(userStrokePoints(Gestures[mt.gesture]), sampleCharacter,
                             mt.strokeNum, mt.options))

MatchNext == ApplyGetMatchData \/ ApplyStrokeMatches

SpecMatch == MatchInit /\ [][MatchNext]_vars

\* getMatchData without the backwards retry
forwardOnly(points) ==
    getMatchData(points, sampleStroke,
                 [mt.options EXCEPT !.checkBackwards = Some(FALSE)])

\* the case of the backwards retry: the forward evaluation is a non-match,
\* checkBackwards is enabled and the reversed points match
RetryCase(fwd, rev) ==
    ~fwd.isMatch /\ OptBackwards(mt.options) /\ rev.isMatch

\* what result reports in the retry case and whenever it is backwards
BackwardsReport(result, fwd, rev, isMatch) ==
    /\ RetryCase(fwd, rev) =>
           result.isMatch = isMatch /\ result.meta.isStrokeBackwards
    /\ result.meta.isStrokeBackwards => result.isMatch = isMatch

\* the reports of the two functions, with isMatch the value a backwards
\* result carries
BackwardsReports(isMatch) ==
    /\ mt.phase = "getMatchData" =>
           BackwardsReport(Val(mt.result), forwardOnly(samplePoints),
                           forwardOnly(Reverse(samplePoints)), isMatch)
    /\ (mt.phase = "strokeMatches" /\ Val(mt.result).meta.isStrokeBackwards) =>
           Val(mt.result).isMatch = isMatch

\* C8 as stated: when the forward evaluation is a non-match, checkBackwards is
\* enabled and the reversed points match, the matcher reports isMatch = true
\* with isStrokeBackwards = true; so isStrokeBackwards = true implies
\* isMatch = true.
C8_BackwardsIsMatch == BackwardsReports(TRUE)

\* C8: when the forward evaluation is a non-match, checkBackwards is enabled
\* and the reversed points match, the matcher reports isMatch = false with
\* isStrokeBackwards = true; so isStrokeBackwards = true implies
\* isMatch = false.
C8_BackwardsIsNotMatch == BackwardsReports(FALSE)

C8_Witness ==
    /\ mt.phase = "getMatchData"
    /\ RetryCase(forwardOnly(samplePoints), forwardOnly(Reverse(samplePoints)))
    /\ ~Val(mt.result).isMatch
    /\ Val(mt.result).meta.isStrokeBackwards

\* the points of the sampled gesture, as strokeMatches receives them
sampleUserPoints == userStrokePoints(Gestures[mt.gesture])

\* deduped is points without the repetitions of a point just seen
RECURSIVE IsDeduplicated(_, _)
IsDeduplicated(deduped, points) ==
    IF points = << >> THEN deduped = << >>
    ELSE /\ deduped # << >>
         /\ Head(deduped) = Head(points)
         /\ IF Len(points) >= 2 /\ points[2] = points[1]
            THEN IsDeduplicated(deduped, Tail(points))
            ELSE IsDeduplicated(Tail(deduped), Tail(points))

\* C15: strokeMatches drops the consecutive repetitions of a point, and when
\* fewer than 2 points remain it reports no match, not backwards, for every
\* character, stroke number and options, without reading a stroke.
C15_DegenerateStrokeNeverMatches ==
    (mt.phase = "strokeMatches") =>
        /\ IsDeduplicated(samplePoints, sampleUserPoints)
        /\ Len(samplePoints) < 2 =>
               Val(mt.result) = MatchResult(FALSE, [isStrokeBackwards |-> FALSE])

C15_Witness ==
    /\ mt.phase = "strokeMatches"
    /\ Len(sampleUserPoints) = 2
    /\ Len(samplePoints) = 1
    /\ mt.strokeNum = Len(sampleCharacter.strokes)
    /\ Val(mt.result) = MatchResult(FALSE, [isStrokeBackwards |-> FALSE])

\* the options strokeMatches hands to getMatchData
sampleOptions == [mt.options EXCEPT !.checkBackwards = None]

\* the average distances of the later strokes that match forward only and are
\* strictly closer than d
closerLater(d) ==
    {m.avgDist :
        m \in {two \in {getMatchData(samplePoints, sampleCharacter.strokes[i],
                            [sampleOptions EXCEPT !.checkBackwards = Some(FALSE)]) :
                        i \in (mt.strokeNum + 2)..Len(sampleCharacter.strokes)} :
                  two.isMatch /\ FracLess(two.avgDist, d)}}

\* the smallest fraction of S
FracMin(S) == CHOOSE x \in S : \A y \in S : FracLeq(x, y)

\* 0.6 * (dLater + d) / (2 * d)
stricterFactor(dLater, d) ==
    FracMul(Frac(3, 5), FracDiv(FracAdd(dLater, d), FracMul(FracInt(2), d)))

\* the candidate, evaluated again at its leniency times factor
reEvaluated(factor) ==
    getMatchData(samplePoints, sampleStroke,
        [sampleOptions EXCEPT !.leniency =
            Some(FracMul(LeniencyOr(sampleOptions.leniency, FracInt(1)), factor))])

\* what C23 asks of result, one being the candidate's evaluation and closer
\* the distances of the later strokes that beat it
StricterRule(result, one, closer) ==
    IF ~one.isMatch \/ closer = {}
    THEN result = MatchResult(one.isMatch, one.meta)
    ELSE LET factor == stricterFactor(FracMin(closer), one.avgDist)
             three == reEvaluated(factor)
         IN /\ FracLeq(Frac(3, 10), factor)
            /\ FracLess(factor, Frac(3, 5))
            /\ result = MatchResult(three.isMatch, three.meta)

\* the calls of strokeMatches that reach the candidate's evaluation
CandidateEvaluated ==
    /\ mt.phase = "strokeMatches"
    /\ Len(samplePoints) >= 2
    /\ mt.strokeNum < Len(sampleCharacter.strokes)

sampleOne == getMatchData(samplePoints, sampleStroke, sampleOptions)

-----------------------------------------------------------------------------
(* parseCharData on its own: Init draws the raw data, an action parses it *)

\* the most strokes and medians the raw data drawn holds
MaxStrokes == 3

\* what parseCharData leaves behind: a Character, or a TypeError thrown
Parsed(character) == [threw |-> FALSE, character |-> Some(character)]
ParseThrew == [threw |-> TRUE, character |-> None]

\* parseCharData on raw data whose strokes and medians may be absent (None)
\* and may differ in length
parseCharDataRaw(sym, raw) ==
    \* strokes.map of undefined
    IF IsNone(raw.strokes) THEN ParseThrew
    \* the callback of strokes.map is never called
    ELSE IF Len(Val(raw.strokes)) = 0 THEN Parsed(Character(sym, << >>))
    \* medians[index] of undefined
    ELSE IF IsNone(raw.medians) THEN ParseThrew
    \* medians[index] is undefined: medians[index].map
    ELSE IF Len(Val(raw.medians)) < Len(Val(raw.strokes)) THEN ParseThrew
    ELSE Parsed(parseCharData(sym,
                              [strokes |-> Val(raw.strokes),
                               medians |-> Val(raw.medians),
                               radStrokes |-> raw.radStrokes]))

\* sequences of at most n elements of S
SeqUpTo(S, n) == UNION {[1..k -> S] : k \in 0..n}

\* the medians raw data is drawn from
SampleMedians ==
    {<<Pt(256, 388), Pt(768, 388)>>, <<Pt(256, 516), Pt(512, 520), Pt(768, 516)>>}

RawSamples ==
    [phase : {"input"}, sym : {"yi"},
     raw : [strokes : {None} \cup {Some(p) : p \in SeqUpTo({"path"}, MaxStrokes)},
            medians : {None} \cup {Some(m) : m \in SeqUpTo(SampleMedians, MaxStrokes)},
            radStrokes : {{}, {0}}],
     result : {None}]

ParseInit ==
    /\ mt \in RawSamples
    /\ characterState = [status |-> "idle", data |-> None]
    /\ quiz = createQuizStore(mt.sym)
    /\ animator = createAnimatorStore(mt.sym)
    /\ last = Last("init", "", None, createQuizStore(mt.sym), FALSE,
                   Anim("stopped", "stopped"),
                   Outcome(createQuizStore(mt.sym), << >>, FALSE, FALSE))
    /\ round = NoRound

\* parseCharData(symbol, charJson)
ApplyParseCharData ==
    /\ mt.phase = "input"
    /\ Sampled("parseCharData", parseCharDataRaw(mt.sym, mt.raw))

ParseNext == ApplyParseCharData

SpecParse == ParseInit /\ [][ParseNext]_vars

\* both lists are present and of equal length
WellFormed(raw) ==
    /\ ~IsNone(raw.strokes)
    /\ ~IsNone(raw.medians)
    /\ Len(Val(raw.strokes)) = Len(Val(raw.medians))

\* C17: parseCharData fails with an error and yields no Character when the
\* strokes or the medians list is absent or the two differ in length; it
\* yields a Character only when both are present and of equal length.
C17_MalformedDataFails ==
    (mt.phase = "parseCharData") =>
        /\ ~WellFormed(mt.raw) =>
               Val(mt.result).threw /\ IsNone(Val(mt.result).character)
        /\ ~IsNone(Val(mt.result).character) => WellFormed(mt.raw)

-----------------------------------------------------------------------------
(* simplify *)

\* The point objects a caller holds.  A point sequence is a sequence of
\* references to them (indices into PointObjects), so that the same object can
\* occur twice and two objects can have the same coordinates.
PointObjects == <<Pt(0, 0), Pt(0, 0), Pt(1, 0), Pt(2, 2)>>

PointRefs == DOMAIN PointObjects

\* square distance between 2 points
getSqDist(p1, p2) ==
    (p1.x - p2.x) * (p1.x - p2.x) + (p1.y - p2.y) * (p1.y - p2.y)

\* getSqSegDist when p1 # p2; num / den is t
sqSegDistAt(p, p1, p2, num, den) ==
    IF num > den THEN FracInt(getSqDist(p, p2))
    ELSE IF num > 0
         THEN LET ex == (p.x - p1.x) * den - (p2.x - p1.x) * num
                  ey == (p.y - p1.y) * den - (p2.y - p1.y) * num
              IN Frac(ex * ex + ey * ey, den * den)
         ELSE FracInt(getSqDist(p, p1))

\* square distance from a point to a segment, as a fraction
getSqSegDist(p, p1, p2) ==
    IF p2.x - p1.x # 0 \/ p2.y - p1.y # 0
    THEN sqSegDistAt(p, p1, p2,
                     (p.x - p1.x) * (p2.x - p1.x) + (p.y - p1.y) * (p2.y - p1.y),
                     getSqDist(p1, p2))
    ELSE FracInt(getSqDist(p, p1))

\* the loop of simplifyRadialDist from points[i] on; prev is the position of
\* prevPoint in points
RECURSIVE radialFrom(_, _, _, _, _)
radialFrom(points, sqTolerance, i, prev, newPoints) ==
    IF i > Len(points) THEN [prev |-> prev, newPoints |-> newPoints]
    ELSE IF getSqDist(PointObjects[points[i]], PointObjects[points[prev]])
            > sqTolerance
         THEN radialFrom(points, sqTolerance, i + 1, i, Append(newPoints, points[i]))
         ELSE radialFrom(points, sqTolerance, i + 1, prev, newPoints)

\* the end of simplifyRadialDist: if (point && prevPoint !== point), on the
\* identity of the two objects
radialEnd(points, loop) ==
    IF Len(points) >= 2 /\ points[loop.prev] # points[Len(points)]
    THEN Append(loop.newPoints, points[Len(points)])
    ELSE loop.newPoints

\* basic distance-based simplification
simplifyRadialDist(points, sqTolerance) ==
    radialEnd(points, radialFrom(points, sqTolerance, 2, 1, <<points[1]>>))

\* the loop of simplifyDPStep from i on: index (0 while undefined) and maxSqDist
dpFarther(sqDist, i, found) ==
    IF FracLess(found.maxSqDist, sqDist)
    THEN [index |-> i, maxSqDist |-> sqDist] ELSE found

RECURSIVE dpScan(_, _, _, _, _)
dpScan(points, first, lastAt, i, found) ==
    IF i >= lastAt THEN found
    ELSE dpScan(points, first, lastAt, i + 1,
                dpFarther(getSqSegDist(PointObjects[points[i]],
                                       PointObjects[points[first]],
                                       PointObjects[points[lastAt]]),
                          i, found))

RECURSIVE simplifyDPStep(_, _, _, _, _)
\* simplified.push(points[index]) and the step to the right of index
dpRight(points, index, lastAt, sqTolerance, simplified) ==
    IF lastAt - index > 1
    THEN simplifyDPStep(points, index, lastAt, sqTolerance,
                        Append(simplified, points[index]))
    ELSE Append(simplified, points[index])

\* simplifyDPStep once the loop has found index and maxSqDist
dpSplit(points, first, lastAt, sqTolerance, simplified, found) ==
    IF found.index # 0 /\ FracLess(FracInt(sqTolerance), found.maxSqDist)
    THEN dpRight(points, found.index, lastAt, sqTolerance,
                 IF found.index - first > 1
                 THEN simplifyDPStep(points, first, found.index, sqTolerance, simplified)
                 ELSE simplified)
    ELSE simplified

\* first and lastAt (last in the code) are positions in points, 1-based; the
\* result is simplified after the step
simplifyDPStep(points, first, lastAt, sqTolerance, simplified) ==
    dpSplit(points, first, lastAt, sqTolerance, simplified,
            dpScan(points, first, lastAt, first + 1,
                   [index |-> 0, maxSqDist |-> FracInt(sqTolerance)]))

\* a Ramer-Douglas-Peucker pass that does not push the last point
simplifyDouglasPeuckerOpen(points, sqTolerance) ==
    simplifyDPStep(points, 1, Len(points), sqTolerance, <<points[1]>>)

\* simplification using Ramer-Douglas-Peucker algorithm
simplifyDouglasPeucker(points, sqTolerance) ==
    Append(simplifyDPStep(points, 1, Len(points), sqTolerance, <<points[1]>>),
           points[Len(points)])

\* tolerance !== undefined ? tolerance * tolerance : 1
SqTolerance(tolerance) ==
    IF IsNone(tolerance) THEN 1 ELSE Val(tolerance) * Val(tolerance)

\* simplify(points, tolerance, highestQuality); tolerance and highestQuality
\* may be omitted (None)
simplify(points, tolerance, highestQuality) ==
    IF Len(points) <= 2 THEN points
    ELSE simplifyDouglasPeucker(
             IF highestQuality = Some(TRUE) THEN points
             ELSE simplifyRadialDist(points, SqTolerance(tolerance)),
             SqTolerance(tolerance))

\* the most points of a sequence given to simplify
MaxPoints == 4

SimplifySamples ==
    [phase : {"input"}, sym : {"yi"},
     points : SeqUpTo(PointRefs, MaxPoints) \ {<< >>},
     tolerance : {None, Some(0), Some(1), Some(2)},
     highestQuality : {None, Some(FALSE), Some(TRUE)},
     result : {None}]

SimplifyInit ==
    /\ mt \in SimplifySamples
    /\ characterState = [status |-> "idle", data |-> None]
    /\ quiz = createQuizStore(mt.sym)
    /\ animator = createAnimatorStore(mt.sym)
    /\ last = Last("init", "", None, createQuizStore(mt.sym), FALSE,
                   Anim("stopped", "stopped"),
                   Outcome(createQuizStore(mt.sym), << >>, FALSE, FALSE))
    /\ round = NoRound

\* simplify(points, tolerance, highestQuality)
ApplySimplify ==
    /\ mt.phase = "input"
    /\ Sampled("simplify", simplify(mt.points, mt.tolerance, mt.highestQuality))

SimplifyNext == ApplySimplify

SpecSimplify == SimplifyInit /\ [][SimplifyNext]_vars

\* C18: for every input of at least one point, every tolerance and either
\* highestQuality, the first and the last point simplify returns are the
\* first and the last point of its input, and an input of at most 2 points
\* is returned as it is.
C18_SimplifyKeepsEnds ==
    (mt.phase = "simplify") =>
        /\ Val(mt.result) # << >>
        /\ Val(mt.result)[1] = mt.points[1]
        /\ Val(mt.result)[Len(Val(mt.result))] = mt.points[Len(mt.points)]
        /\ Len(mt.points) <= 2 => Val(mt.result) = mt.points

C18_Witness ==
    /\ mt.phase = "simplify"
    /\ Len(mt.points) = 4
    /\ mt.highestQuality # Some(TRUE)
    /\ Len(Val(mt.result)) = 3
    /\ Val(mt.result)[1] = mt.points[1]
    /\ Val(mt.result)[3] = mt.points[4]

-----------------------------------------------------------------------------
(* The Positioner on its own *)

\* the options a Positioner is built from
PositionerOptions ==
    [width : {200, 300, 512}, height : {200, 300, 512}, padding : {0, 20}]

\* the side of the centred character box on the surface, and its corners
\* (the surface's y grows downwards)
boxSide(options) ==
    Min2(options.width - 2 * options.padding, options.height - 2 * options.padding)

boxTopLeft(options) ==
    Pt(Frac(options.width - boxSide(options), 2),
       Frac(options.height - boxSide(options), 2))

boxBottomRight(options) ==
    Pt(Frac(options.width + boxSide(options), 2),
       Frac(options.height + boxSide(options), 2))

\* the surface points converted: points of the pixel grid and the two corners
SurfacePoints(options) ==
    {FracPt(Pt(x, y)) : x \in {0, 75, 300}, y \in {0, 112, 300}}
        \cup {boxTopLeft(options), boxBottomRight(options)}

PositionerSamples ==
    UNION {[phase : {"input"}, sym : {"yi"}, options : {options},
            point : SurfacePoints(options), result : {None}] :
           options \in PositionerOptions}

PositionerInit ==
    /\ mt \in PositionerSamples
    /\ characterState = [status |-> "idle", data |-> None]
    /\ quiz = createQuizStore(mt.sym)
    /\ animator = createAnimatorStore(mt.sym)
    /\ last = Last("init", "", None, createQuizStore(mt.sym), FALSE,
                   Anim("stopped", "stopped"),
                   Outcome(createQuizStore(mt.sym), << >>, FALSE, FALSE))
    /\ round = NoRound

\* new Positioner(options).convertExternalPoint(point)
ApplyConvertExternalPoint ==
    /\ mt.phase = "input"
    /\ Sampled("convertExternalPoint",
               convertExternalPoint(Positioner(mt.options), mt.point))

PositionerNext == ApplyConvertExternalPoint

SpecPositioner == PositionerInit /\ [][PositionerNext]_vars

\* the inverse mapping: x = x' * scale + xOffset, y = height - yOffset - y' * scale
convertBack(pos, point) ==
    Pt(FracAdd(FracMul(point.x, pos.scale), pos.xOffset),
       FracSub(FracSub(FracInt(pos.height), pos.yOffset),
               FracMul(point.y, pos.scale)))

\* what C19 says of the positioner pos built from options and of the result
\* of converting point with it
ConvertsExactly(options, pos, point, result) ==
    /\ pos.scale = Frac(boxSide(options), preScaledWidth)
    /\ FracLeq(pos.scale, Frac(options.width - 2 * options.padding, preScaledWidth))
    /\ FracLeq(pos.scale, Frac(options.height - 2 * options.padding, preScaledHeight))
    /\ point = boxTopLeft(options) => result = FracPt(Pt(FromX, ToY))
    /\ point = boxBottomRight(options) => result = FracPt(Pt(ToX, FromY))
    /\ convertBack(pos, result) = point

\* C19: a Positioner of positive scale has one scale, the smaller of scaleX
\* and scaleY; convertExternalPoint maps the top left corner of the centred
\* character box to (0, 900) and its bottom right corner to (1024, -124), and
\* the inverse mapping recovers the point converted.
C19_ConvertExternalPoint ==
    (mt.phase = "convertExternalPoint") =>
        ConvertsExactly(mt.options, Positioner(mt.options), mt.point, Val(mt.result))

C19_Witness ==
    /\ mt.phase = "convertExternalPoint"
    /\ mt.options = [width |-> 512, height |-> 300, padding |-> 20]
    /\ mt.point = boxTopLeft(mt.options)
    /\ mt.point = Pt(FracInt(126), FracInt(20))
    /\ Val(mt.result) = FracPt(Pt(0, 900))

-----------------------------------------------------------------------------
(* A quiz whose onComplete handler starts the quiz again *)

\* the accepted branch of check() when the onComplete handler calls
\* quiz.start(params): start() runs inside the handler, and check() goes on
\* to its own quizStore.setState({ index, active })
checkAcceptedRestarting(q, charClass, params) ==
    LET active == q.index < Len(charClass.strokes) - 1
        handled == ~active /\ ~IsNone(q.params) /\ Val(q.params).onComplete
        started == IF handled THEN start(q, Some(charClass), params)
                   ELSE Outcome(q, << >>, FALSE, FALSE)
        newState == [index |-> IF active THEN q.index + 1 ELSE 0, active |-> active]
    IN [quiz |-> setState(started.quiz, newState),
        events |-> IF handled
                   THEN <<Delivered(CompleteEvent(KeyCount(q.mistakes)), q)>>
                   ELSE << >>,
        threw |-> FALSE,
        cancelled |-> started.cancelled,
        published |-> started.published \o <<Publication(started.quiz, newState)>>]

\* check() after strokeMatches returned match, with that handler
checkMatchedRestarting(q, charClass, match, params) ==
    IF ~match.threw /\ isAccepted(match, q.params)
    THEN checkAcceptedRestarting(q, charClass, params)
    ELSE checkMatched(q, charClass, match)

\* quiz.check(simplifiedPoints), with that handler
checkRestarting(q, charClass, simplifiedPoints, params) ==
    IF IsNone(charClass) \/ Len(simplifiedPoints) = 0
    THEN check(q, charClass, simplifiedPoints)
    ELSE checkMatchedRestarting(q, Val(charClass),
                                matchTable[<<userStrokePoints(simplifiedPoints),
                                             Val(charClass), q.index,
                                             checkOptions(q.params)>>],
                                params)

\* writer.quiz.check(points) when onComplete calls writer.quiz.start(params)
CheckRestartingDo(g, params, o) ==
    /\ \A k \in DOMAIN o.quiz.mistakes : o.quiz.mistakes[k] <= MaxMistakes
    /\ quiz' = o.quiz
    /\ animator' = IF o.cancelled THEN cancelAnimation(animator) ELSE animator
    /\ last' = Last("check", g, Some(params), quiz, ~IsNone(characterClass),
                    Anim(animator.state, animator'.state), o)
    /\ round' = IF o.cancelled
                THEN [NoRound EXCEPT !.open = TRUE, !.start = o.quiz.index,
                                     !.params = Some(params)]
                ELSE RoundAfter(o)
    /\ UNCHANGED <<characterState, mt>>

CheckRestarting(g, params) ==
    CheckRestartingDo(g, params,
                      checkRestarting(quiz, characterClass, Gestures[g], params))

\* the params the handler restarts with: a leniency and the handlers again
RestartParams == {p \in ParamsSet : p.onComplete /\ ~IsNone(p.leniency)}

RestartNext ==
    \/ LoadStart
    \/ LoadResolve
    \/ LoadReject
    \/ \E params \in ParamsSet : Start(params)
    \/ \E g \in GestureNames, params \in RestartParams : CheckRestarting(g, params)
    \/ Stop
    \/ AnimateCharacter
    \/ CancelAnimation

SpecRestart == Init /\ [][RestartNext]_vars

\* the last call was a check() whose onComplete handler called start()
LastRestarted ==
    /\ last.op = "check"
    /\ Len(last.events) = 1
    /\ last.events[1].type = "onComplete"

\* C25: when the onComplete handler calls quiz.start(p), the quiz is active
\* after the completing check() returned, with the index and the params that
\* start() asked for and no mistakes.
C25_RestartSurvivesCheck ==
    LastRestarted =>
        /\ quiz.active
        /\ quiz.index = startIndex(Val(last.params), Val(characterClass))
        /\ quiz.params = last.params
        /\ quiz.mistakes = << >>

-----------------------------------------------------------------------------
(* The character animator and the completion notifications of its animations *)

\* the most animations the model starts
MaxAnimations == 3

\* useCharacterAnimator: the store's initial state, animationKeyRef ('' is
\* None here, as is the store's null), and the animations started whose
\* completion has not been notified yet
useCharacterAnimator(character) ==
    [store |-> [character |-> character, state |-> "stopped",
                animationKey |-> None, onComplete |-> None],
     animationKeyRef |-> None,
     generated |-> 0,
     running |-> {}]

\* generateId(): an id no earlier call returned
generateId(a) == a.generated + 1

\* animateCharacter(params): onComplete is params?.onComplete
animateCharacterWith(a, onComplete) ==
    [store |-> setState(a.store, [state |-> "playing",
                                  animationKey |-> Some(generateId(a)),
                                  onComplete |-> onComplete]),
     animationKeyRef |-> Some(generateId(a)),
     generated |-> generateId(a),
     running |-> a.running \cup {generateId(a)}]

\* if (animationKeyRef.current === animationKey): '' and null differ
keyIsCurrent(a) ==
    ~IsNone(a.animationKeyRef) /\ a.animationKeyRef = a.store.animationKey

\* onAnimationComplete(), called for the animation of key
onAnimationComplete(a, key) ==
    [a EXCEPT !.store = IF keyIsCurrent(a) THEN setState(@, [state |-> "stopped"])
                        ELSE @,
              !.running = @ \ {key}]

\* the callback onAnimationComplete() invokes
invokedOnComplete(a) == IF keyIsCurrent(a) THEN a.store.onComplete ELSE None

\* the record of the last call on the animator
LastAnimator(op, key, pre, invoked) ==
    [op |-> op, key |-> key, pre |-> pre, invoked |-> invoked]

AnimatorInit ==
    \E sym \in Symbols :
        /\ animator = useCharacterAnimator(sym)
        /\ characterState = [status |-> "idle", data |-> None]
        /\ quiz = createQuizStore(sym)
        /\ last = LastAnimator("init", None, useCharacterAnimator(sym), None)
        /\ round = NoRound
        /\ mt = NoSample

\* writer.animator.animateCharacter({ onComplete }): the callback is named by
\* the animation it is given to, None when it is omitted
AnimateCharacterWith(supplied) ==
    /\ animator.generated < MaxAnimations
    /\ animator' = animateCharacterWith(animator,
                       IF supplied THEN Some(generateId(animator)) ELSE None)
    /\ last' = LastAnimator("animateCharacter", Some(generateId(animator)),
                            animator, None)
    /\ UNCHANGED <<characterState, quiz, round, mt>>

\* writer.animator.cancelAnimation(), as quiz.start() calls it too
CancelRunning ==
    /\ animator' = [animator EXCEPT !.store = cancelAnimation(@)]
    /\ last' = LastAnimator("cancelAnimation", None, animator, None)
    /\ UNCHANGED <<characterState, quiz, round, mt>>

\* the last StrokeAnimator of the animation of key reports its completion
OnAnimationComplete(key) ==
    /\ key \in animator.running
    /\ animator' = onAnimationComplete(animator, key)
    /\ last' = LastAnimator("onAnimationComplete", Some(key), animator,
                            invokedOnComplete(animator))
    /\ UNCHANGED <<characterState, quiz, round, mt>>

AnimatorNext ==
    \/ \E supplied \in BOOLEAN : AnimateCharacterWith(supplied)
    \/ CancelRunning
    \/ \E key \in 1..MaxAnimations : OnAnimationComplete(key)

SpecAnimator == AnimatorInit /\ [][AnimatorNext]_vars

\* the animation of key is the one started last, and it was not cancelled
IsCurrent(a, key) ==
    a.store.state = "playing" /\ a.store.animationKey = Some(key)

\* C26: a completion notification of an animation that was cancelled or
\* superseded invokes no onComplete and leaves the animator's store as it is;
\* the completion of the current animation invokes its own onComplete.
C26_LateCompletionIgnored ==
    (last.op = "onAnimationComplete") =>
        IF IsCurrent(last.pre, Val(last.key))
        THEN /\ last.invoked = last.pre.store.onComplete
             /\ last.invoked \in {None, last.key}
        ELSE /\ last.invoked = None
             /\ animator.store = last.pre.store

-----------------------------------------------------------------------------
(* usePromise as useHanziWriter calls it: the cache key is the character *)

\* the most loads and refetches the model starts
MaxLoads == 3

\* A PromiseState.  key, load and late are not fields of the code's state:
\* they name the load that produced it (its cache key, its number, and whether
\* it settled after its effect was cleaned up).
PromiseState(status, data, key, load, late) ==
    [status |-> status, data |-> data, key |-> key, load |-> load, late |-> late]

IdleState == PromiseState("idle", None, None, 0, FALSE)

\* PromiseCache.get(cacheKey)
cacheGet(h, cacheKey) == h.cache[cacheKey]

\* One render of the hook: hasCacheHit, the state it returns, and whether the
\* effect's dependencies [cacheKey, hasCacheHit, refetchKey] changed
render(h) ==
    LET hasCacheHit == cacheGet(h, h.cacheKey)
        deps == <<h.cacheKey, hasCacheHit, h.refetchKey>>
    IN [h EXCEPT !.returned = IF ~IsNone(hasCacheHit) THEN Val(hasCacheHit)
                              ELSE h.state,
                 !.effectDue = (Some(deps) # h.deps),
                 !.deps = Some(deps)]

\* usePromise(options) on mount: useState({ status: 'idle' }), useState(0)
usePromise(cacheKey) ==
    render([cacheKey |-> cacheKey, state |-> IdleState, refetchKey |-> 0,
            cache |-> [k \in Symbols |-> None], loads |-> {}, started |-> 0,
            deps |-> None, effectDue |-> FALSE, returned |-> IdleState])

\* the cleanup of the effect before: safeSetState = () => {}
cleanedUp(loads) == {[l EXCEPT !.safe = FALSE] : l \in loads}

\* the effect: cleanup of the one before, then return on a cache hit, else
\* safeSetState({ status: 'pending' }) and promiseFn()
effect(h) ==
    IF ~IsNone(cacheGet(h, h.cacheKey))
    THEN [h EXCEPT !.loads = cleanedUp(@), !.effectDue = FALSE]
    ELSE render([h EXCEPT
                   !.state = PromiseState("pending", None, Some(h.cacheKey),
                                          h.started + 1, FALSE),
                   !.loads = cleanedUp(@) \cup
                             {[id |-> h.started + 1, key |-> h.cacheKey, safe |-> TRUE]},
                   !.started = @ + 1])

\* .then((data) => { safeSetState(...); PromiseCache.set(options.cacheKey, ...) })
\* for load l; the component renders again when setState was called
thenResolved(h, l) ==
    LET resolved == PromiseState("resolved",
                                 Some(parseCharData(l.key, CharData[l.key])),
                                 Some(l.key), l.id, ~l.safe)
        cached == [h EXCEPT !.cache[l.key] = Some(resolved), !.loads = @ \ {l}]
    IN IF l.safe THEN render([cached EXCEPT !.state = resolved]) ELSE cached

\* .catch((error) => safeSetState({ status: 'rejected', error })) for load l
catchRejected(h, l) ==
    LET rejected == PromiseState("rejected", None, Some(l.key), l.id, ~l.safe)
        settled == [h EXCEPT !.loads = @ \ {l}]
    IN IF l.safe THEN render([settled EXCEPT !.state = rejected]) ELSE settled

\* refetch: () => setRefetchKey(refetchKey + 1)
refetch(h) == render([h EXCEPT !.refetchKey = @ + 1])

\* the component is rendered with another character
withCharacter(h, character) == render([h EXCEPT !.cacheKey = character])

\* the hook after a step: mt is the hook, characterState what it returns
Hooked(h) ==
    /\ mt' = h
    /\ characterState' = h.returned
    /\ UNCHANGED <<quiz, animator, last, round>>

LoadInit ==
    \E sym \in Symbols :
        /\ mt = usePromise(sym)
        /\ characterState = usePromise(sym).returned
        /\ quiz = createQuizStore(sym)
        /\ animator = createAnimatorStore(sym)
        /\ last = Last("init", "", None, createQuizStore(sym), FALSE,
                       Anim("stopped", "stopped"),
                       Outcome(createQuizStore(sym), << >>, FALSE, FALSE))
        /\ round = NoRound

\* React runs the effect after the render that changed its dependencies, and
\* before it renders again
RunEffect ==
    /\ mt.effectDue
    /\ mt.started < MaxLoads \/ ~IsNone(cacheGet(mt, mt.cacheKey))
    /\ Hooked(effect(mt))

PromiseResolves(l) ==
    /\ ~mt.effectDue
    /\ l \in mt.loads
    /\ Hooked(thenResolved(mt, l))

PromiseRejects(l) ==
    /\ ~mt.effectDue
    /\ l \in mt.loads
    /\ Hooked(catchRejected(mt, l))

Refetch ==
    /\ ~mt.effectDue
    /\ mt.refetchKey < MaxLoads
    /\ Hooked(refetch(mt))

ChangeCharacter(character) ==
    /\ ~mt.effectDue
    /\ character # mt.cacheKey
    /\ Hooked(withCharacter(mt, character))

LoadNext ==
    \/ RunEffect
    \/ \E l \in mt.loads : PromiseResolves(l)
    \/ \E l \in mt.loads : PromiseRejects(l)
    \/ Refetch
    \/ \E character \in Symbols : ChangeCharacter(character)

SpecLoad == LoadInit /\ [][LoadNext]_vars

\* C27: the state the hook returns for the current character is never the
\* outcome of a load for another character or of a superseded load: a
\* resolved or rejected state comes from a load of the current cache key that
\* settled while its effect was the current one, and resolved data is the
\* Character of the current symbol.
C27_NoStaleLoadState ==
    (characterState.status \in {"resolved", "rejected"}) =>
        /\ characterState.key = Some(mt.cacheKey)
        /\ ~characterState.late
        /\ characterState.status = "resolved" =>
               Val(characterState.data).symbol = mt.cacheKey

-----------------------------------------------------------------------------
(* UserStrokeGesture: the points of a gesture and the fade-out of the stroke *)

\* the most events of one gesture
MaxGesturePoints == 3

\* UserStrokeGesture on mount: points = useSharedValue([]), fade = 1.
\* points holds references to PointObjects, one object per event.  touching,
\* drawn and handed are not the component's: whether a gesture is in progress,
\* the events it had so far, and what its end handed to check().
UserStrokeGesture ==
    [phase |-> "gesture", points |-> << >>, fading |-> FALSE,
     touching |-> FALSE, drawn |-> << >>, handed |-> None]

\* onStart(event): points.value = [{ x: event.x, y: event.y }]
onStart(c, event) == [c EXCEPT !.points = <<event>>]

\* onActive(event): points.value = [...points.value, { x: event.x, y: event.y }]
onActive(c, event) == [c EXCEPT !.points = Append(@, event)]

\* the callback of withTiming(0, { duration: 200 }): points.value = []; fade.value = 1
fadedOut(c) == [c EXCEPT !.points = << >>, !.fading = FALSE]

\* check(): fade.value = withTiming(0, { duration: 200 }, ...)
fadeOut(c) == [c EXCEPT !.fading = TRUE]

\* simplify(points.value, 1), as its points
simplifiedPoints(points) ==
    LET refs == simplify(points, Some(1), None)
    IN [i \in 1..Len(refs) |-> PointObjects[refs[i]]]

\* quiz.check(simplifiedPoints), not tabulated
checkPoints(q, charClass, points) ==
    IF IsNone(charClass) \/ Len(points) = 0 THEN check(q, charClass, points)
    ELSE checkMatched(q, Val(charClass),
                      strokeMatches(userStrokePoints(points), Val(charClass),
                                    q.index, checkOptions(q.params)))

\* the params the quiz of this specification is started with
GestureParams == {p \in ParamsSet : p.onComplete /\ p.quizStartStrokeNum = Some(0)}

GestureInit ==
    \E sym \in Symbols :
        /\ characterState = [status |-> "idle", data |-> None]
        /\ quiz = createQuizStore(sym)
        /\ animator = createAnimatorStore(sym)
        /\ last = Last("init", "", None, createQuizStore(sym), FALSE,
                       Anim("stopped", "stopped"),
                       Outcome(createQuizStore(sym), << >>, FALSE, FALSE))
        /\ round = NoRound
        /\ mt = UserStrokeGesture

\* PanGestureHandler enabled={active}: a gesture begins
OnStart(event) ==
    /\ quiz.active
    /\ ~mt.touching
    /\ mt' = [onStart(mt, event) EXCEPT !.touching = TRUE, !.drawn = <<event>>,
                                        !.handed = None]
    /\ UNCHANGED <<characterState, quiz, animator, last, round>>

\* the gesture moves: each event is a new object
OnActive(event) ==
    /\ mt.touching
    /\ Len(mt.drawn) < MaxGesturePoints
    /\ event > mt.drawn[Len(mt.drawn)]
    /\ mt' = [onActive(mt, event) EXCEPT !.drawn = Append(@, event)]
    /\ UNCHANGED <<characterState, quiz, animator, last, round>>

\* onEnd() with points: runOnJS(check)(); o is what quiz.check leaves behind
OnEndCheck(o) ==
    /\ \A k \in DOMAIN o.quiz.mistakes : o.quiz.mistakes[k] <= MaxMistakes
    /\ quiz' = o.quiz
    /\ last' = Last("check", "", None, quiz, ~IsNone(characterClass),
                    Anim(animator.state, animator.state), o)
    /\ round' = RoundAfter(o)
    /\ mt' = [fadeOut(mt) EXCEPT !.touching = FALSE,
                                 !.handed = Some([called |-> TRUE, points |-> mt.points,
                                                  drawn |-> mt.drawn])]
    /\ UNCHANGED <<characterState, animator>>

\* onEnd() without points: check() is not called
OnEndEmpty ==
    /\ mt' = [mt EXCEPT !.touching = FALSE,
                        !.handed = Some([called |-> FALSE, points |-> mt.points,
                                         drawn |-> mt.drawn])]
    /\ UNCHANGED <<characterState, quiz, animator, last, round>>

\* the gesture ends
OnEnd ==
    /\ mt.touching
    /\ IF Len(mt.points) > 0
       THEN OnEndCheck(checkPoints(quiz, characterClass, simplifiedPoints(mt.points)))
       ELSE OnEndEmpty

\* the 200 ms of the fade-out are over
FadeComplete ==
    /\ mt.fading
    /\ mt' = fadedOut(mt)
    /\ UNCHANGED <<characterState, quiz, animator, last, round>>

GestureNext ==
    \/ LoadStart
    \/ LoadResolve
    \/ \E params \in GestureParams : Start(params)
    \/ \E event \in PointRefs : OnStart(event)
    \/ \E event \in PointRefs : OnActive(event)
    \/ OnEnd
    \/ FadeComplete

SpecGesture == GestureInit /\ [][GestureNext]_vars

\* C28: every point of a gesture, from its start to its end, is among the
\* points its end hands to check(), also when the gesture began while the
\* stroke before was fading out.
C28_GestureKeepsItsPoints ==
    ~IsNone(mt.handed) =>
        /\ Val(mt.handed).called
        /\ \A i \in DOMAIN Val(mt.handed).drawn :
               \E j \in DOMAIN Val(mt.handed).points :
                   Val(mt.handed).points[j] = Val(mt.handed).drawn[i]

====
